---- MODULE Spec2Model ----
(***************************************************************************)
(* Model of nlpmodels: the Transformer encoder block / encoder stack       *)
(* (models/transformer_blocks/encoder.py) and the helper functions         *)
(* set_seed_everywhere and get_cosine_similar (utils/utils.py).            *)
(*                                                                         *)
(* Three specifications share the module:                                  *)
(*   Spec       - construction, parameter updates and forward passes of    *)
(*                EncoderBlock / CompositeEncoder over an object heap;     *)
(*   SpecCosine - get_cosine_similar applied to bounded inputs;            *)
(*   SpecSeed   - set_seed_everywhere and dropout draws on the generators. *)
(***************************************************************************)
EXTENDS Integers, Sequences, FiniteSets, TLC

VARIABLES pc, heap, proto, layers, add_norm, input, calls, result, lastOp,
          target_word, word_to_idx, embeddings, cos_pc, cos_ret, cos_err, cos_count,
          np_rng, torch_rng, cuda_rng, epoch, runs

encVars  == <<pc, heap, proto, layers, add_norm, input, calls, result, lastOp>>
cosVars  == <<target_word, word_to_idx, embeddings, cos_pc, cos_ret, cos_err, cos_count>>
seedVars == <<np_rng, torch_rng, cuda_rng, epoch, runs>>
vars     == <<encVars, cosVars, seedVars>>

(***************************************************************************)
(* Bounds.                                                                 *)
(***************************************************************************)
MaxLayers == 3
MaxBatch  == 2
MaxDim    == 3
MaxVocab  == 4
MaxRuns   == 3
MaxSeeds  == 2
RngStates == 8

\* Two weight values, enough to tell one parameter storage from another.
Params  == {0, 1}
Sizes   == 2..MaxDim
Batches == 1..MaxBatch
SeqLens == 2..MaxDim

(***************************************************************************)
(* The object heap.  An object is a record; refs maps the names of its     *)
(* sub-module attributes to heap addresses.  An address is an index of the *)
(* sequence heap; 0 is "no object".                                        *)
(***************************************************************************)
NoRefs == [f \in {} |-> 0]

Obj(kind, size, param, refs) ==
    [kind |-> kind, size |-> size, param |-> param, refs |-> refs]

\* MultiHeadedAttention(...) and PositionWiseFFNLayer(...): the sub-modules the
\* caller constructs and hands to EncoderBlock; param stands for their weights.
MultiHeadedAttention(param) == Obj("MultiHeadedAttention", 0, param, NoRefs)
PositionWiseFFNLayer(param) == Obj("PositionWiseFFNLayer", 0, param, NoRefs)

\* AddAndNormWithDropoutLayer(size, dropout): no weights of its own are modelled.
AddAndNormWithDropoutLayer(size) == Obj("AddAndNormWithDropoutLayer", size, 0, NoRefs)

\* EncoderBlock.__init__: stores the two sub-modules it is given (by reference)
\* and builds two separate add+norm layers.  a+1, a+2 are the fresh addresses of
\* the two add+norm layers, a+3 the address of the block.
EncoderBlock_init(h, size, self_attention, feed_forward) ==
    LET a == Len(h)
    IN  [heap |-> h \o << AddAndNormWithDropoutLayer(size),
                          AddAndNormWithDropoutLayer(size),
                          Obj("EncoderBlock", size, 0,
                              [self_attention   |-> self_attention,
                               add_norm_layer_1 |-> a + 1,
                               feed_forward     |-> feed_forward,
                               add_norm_layer_2 |-> a + 2]) >>,
         ref  |-> a + 3]

\* EncoderBlock.size
size(h, b) == h[b].size

\* The objects reachable from a set of addresses through refs.
RECURSIVE Reach(_, _)
Reach(h, S) ==
    LET T == S \cup UNION { { h[o].refs[f] : f \in DOMAIN h[o].refs } : o \in S }
    IN  IF T = S THEN S ELSE Reach(h, T)

\* copy.copy(root): a new object whose attributes refer to the same sub-modules.
ShallowCopy(h, root) ==
    [heap |-> Append(h, h[root]), ref |-> Len(h) + 1]

\* copy.deepcopy(root): every object reachable from root is copied once to a
\* fresh address, and the references inside the copies point to the copies.
deepcopy(h, root) ==
    LET R      == Reach(h, {root})
        new(o) == Len(h) + Cardinality({ x \in R : x <= o })
        old(k) == CHOOSE o \in R : new(o) = Len(h) + k
        copies == [ k \in 1..Cardinality(R) |->
                      [ h[old(k)] EXCEPT
                          !.refs = [ f \in DOMAIN h[old(k)].refs |->
                                        new(h[old(k)].refs[f]) ] ] ]
    IN  [heap |-> h \o copies, ref |-> new(root)]

\* Python's  [x] * n : a list of n references to the one object x.
ListRepeat(x, n) == [ i \in 1..n |-> x ]

\* nn.BatchNorm1d(num_features, momentum=None, affine=False): running statistics
\* of num_features channels, no learned scale or shift.
BatchNorm1d(num_features) == [num_features |-> num_features]

\* CompositeEncoder.__init__(layer, num_layers)
CompositeEncoder_init(h, layer, num_layers) ==
    LET dc == deepcopy(h, layer)
    IN  [heap     |-> dc.heap,
         layers   |-> ListRepeat(dc.ref, num_layers),
         add_norm |-> BatchNorm1d(size(h, layer))]

\* The weights a block computes with: those of its attention and its FFN.
ParamsOf(h, b) ==
    << h[h[b].refs.self_attention].param, h[h[b].refs.feed_forward].param >>

\* The heap addresses that hold the weights of block b.
StorageOf(h, b) == { h[b].refs.self_attention, h[b].refs.feed_forward }

(***************************************************************************)
(* Tensors and the forward pass.  A tensor is an identity and a shape; the *)
(* log calls records every module invocation of one forward pass with the  *)
(* identities of its argument and result tensors.                          *)
(***************************************************************************)
Tensor(id, shape) == [id |-> id, shape |-> shape]
NoMask   == << >>
NoTensor == -1

Call(op, obj, args, mask, out) ==
    [op |-> op, obj |-> obj, args |-> args, mask |-> mask, out |-> out]

Step(out, log, next, ok) == [out |-> out, calls |-> log, next |-> next, ok |-> ok]

\* self._self_attention(query, key, value, mask): result of shape [B, S, size].
SelfAttention_forward(h, a, query, key, value, mask, tid) ==
    Step(Tensor(tid, query.shape),
         << Call("self_attention", a, <<query.id, key.id, value.id>>, mask, tid) >>,
         tid + 1, TRUE)

\* self._feed_forward(x): result of the shape of x.
FeedForward_forward(h, f, x, tid) ==
    Step(Tensor(tid, x.shape),
         << Call("feed_forward", f, <<x.id>>, NoMask, tid) >>,
         tid + 1, TRUE)

\* The two callables EncoderBlock.forward hands to its add+norm layers:
\*   lambda x: self._self_attention(x, x, x, mask)    and    self._feed_forward
Lambda_self_attention(a, mask) == [fn |-> "lambda", obj |-> a, mask |-> mask]
Module_feed_forward(f) == [fn |-> "module", obj |-> f, mask |-> NoMask]

\* sublayer(x) for one of the two callables.
Apply(h, sublayer, x, tid) ==
    IF sublayer.fn = "lambda"
    THEN SelfAttention_forward(h, sublayer.obj, x, x, x, sublayer.mask, tid)
    ELSE FeedForward_forward(h, sublayer.obj, x, tid)

\* The one element of a singleton.  Below, a result that is used several
\* times is bound by  x \in {e} , which computes e once.
Only(S) == CHOOSE x \in S : TRUE

\* AddAndNormWithDropoutLayer.forward(values, sublayer):
\*   norm(values + dropout(sublayer(values)))
\* The sublayer is called once, on values; the addition needs equal shapes.
AddAndNorm_forward(h, w, values, sublayer, tid) ==
    Only({ IF sub.ok /\ sub.out.shape = values.shape
           THEN Step(Tensor(sub.next, values.shape),
                     Append(sub.calls,
                            Call("add_norm", w, <<values.id, sub.out.id>>, NoMask, sub.next)),
                     sub.next + 1, TRUE)
           ELSE Step(Tensor(NoTensor, values.shape), sub.calls, sub.next, FALSE)
           : sub \in { Apply(h, sublayer, values, tid) } })

\* An EncoderBlock.forward that hands the attention a mask other than the
\* caller's (all positions visible).
EncoderBlock_forward_freshMask(h, b, values, mask, tid) ==
    Only(UNION {
       { Step(s2.out, s1.calls \o s2.calls, s2.next, s1.ok /\ s2.ok)
         : s2 \in { AddAndNorm_forward(h, h[b].refs.add_norm_layer_2, s1.out,
                       Module_feed_forward(h[b].refs.feed_forward), s1.next) } }
       : s1 \in { AddAndNorm_forward(h, h[b].refs.add_norm_layer_1, values,
                     Lambda_self_attention(h[b].refs.self_attention,
                                           [ i \in 1..Len(mask) |-> 1 ]), tid) } })

\* An EncoderBlock.forward whose feed-forward step is wrapped around the block's
\* input instead of the result of the attention step.
EncoderBlock_forward_ffnOnInput(h, b, values, mask, tid) ==
    Only(UNION {
       { Step(s2.out, s1.calls \o s2.calls, s2.next, s1.ok /\ s2.ok)
         : s2 \in { AddAndNorm_forward(h, h[b].refs.add_norm_layer_2, values,
                       Module_feed_forward(h[b].refs.feed_forward), s1.next) } }
       : s1 \in { AddAndNorm_forward(h, h[b].refs.add_norm_layer_1, values,
                     Lambda_self_attention(h[b].refs.self_attention, mask), tid) } })

\* EncoderBlock.forward(values, mask)
\*   s1: values = self._add_norm_layer_1(values, lambda x: self._self_attention(x, x, x, mask))
\*   s2: values = self._add_norm_layer_2(values, self._feed_forward)
EncoderBlock_forward(h, b, values, mask, tid) ==
    Only(UNION {
       { Step(s2.out, s1.calls \o s2.calls, s2.next, s1.ok /\ s2.ok)
         : s2 \in { AddAndNorm_forward(h, h[b].refs.add_norm_layer_2, s1.out,
                       Module_feed_forward(h[b].refs.feed_forward), s1.next) } }
       : s1 \in { AddAndNorm_forward(h, h[b].refs.add_norm_layer_1, values,
                     Lambda_self_attention(h[b].refs.self_attention, mask), tid) } })

\* layer(values, mask) for one element of self._layers, bracketed in the log by
\* the call of the block itself.
Layer_call(h, b, values, mask, tid) ==
    Only({ Step(s.out,
                Append(s.calls, Call("EncoderBlock", b, <<values.id>>, mask, s.out.id)),
                s.next, s.ok)
           : s \in { EncoderBlock_forward(h, b, values, mask, tid) } })

\* for layer in self._layers: values = layer(values, mask)
\* acc is the Step reached before the layer at position k.
RECURSIVE RunLayers(_, _, _, _, _)
RunLayers(h, ls, k, acc, mask) ==
    IF k > Len(ls) \/ ~ acc.ok
    THEN acc
    ELSE Only({ RunLayers(h, ls, k + 1,
                          Step(s.out, acc.calls \o s.calls, s.next, s.ok), mask)
                : s \in { Layer_call(h, ls[k], acc.out, mask, acc.next) } })

\* self._add_norm(values): BatchNorm1d on a 3-d input [N, C, L] takes dimension 1
\* as the channel dimension and needs C = num_features.
BatchNorm1d_forward(bn, x, tid) ==
    IF x.shape[2] = bn.num_features
    THEN Step(Tensor(tid, x.shape),
              << Call("batch_norm", 0, <<x.id>>, NoMask, tid) >>, tid + 1, TRUE)
    ELSE Step(Tensor(NoTensor, x.shape),
              << Call("batch_norm", 0, <<x.id>>, NoMask, NoTensor) >>, tid, FALSE)

\* A loop that gives every block the caller's values instead of the previous
\* block's output.
RECURSIVE RunLayers_unchained(_, _, _, _, _, _)
RunLayers_unchained(h, ls, k, acc, values, mask) ==
    IF k > Len(ls) \/ ~ acc.ok
    THEN acc
    ELSE Only({ RunLayers_unchained(h, ls, k + 1,
                          Step(s.out, acc.calls \o s.calls, s.next, s.ok), values, mask)
                : s \in { Layer_call(h, ls[k], values, mask, acc.next) } })

CompositeEncoder_forward_unchained(h, ls, bn, values, mask) ==
    Only(UNION {
       IF r.ok
       THEN { Step(n.out, r.calls \o n.calls, n.next, n.ok)
              : n \in { BatchNorm1d_forward(bn, r.out, r.next) } }
       ELSE { r }
       : r \in { RunLayers_unchained(h, ls, 1, Step(values, << >>, values.id + 1, TRUE),
                                     values, mask) } })

\* CompositeEncoder.forward(values, mask)
\*   r: the loop over self._layers;  n: return self._add_norm(values)
CompositeEncoder_forward(h, ls, bn, values, mask) ==
    Only(UNION {
       IF r.ok
       THEN { Step(n.out, r.calls \o n.calls, n.next, n.ok)
              : n \in { BatchNorm1d_forward(bn, r.out, r.next) } }
       ELSE { r }
       : r \in { RunLayers(h, ls, 1, Step(values, << >>, values.id + 1, TRUE), mask) } })

(***************************************************************************)
(* utils.get_cosine_similar.  A word is the sequence of its character      *)
(* codes; a vocabulary (a dict, which iterates in insertion order) is a    *)
(* sequence of items [word, index] with distinct words; the embedding      *)
(* table is a sequence of rows, row r being embeddings[r + 1].             *)
(***************************************************************************)
w_cat == <<99, 97, 116>>
w_Cat == <<67, 97, 116>>
w_dog == <<100, 111, 103>>
w_car == <<99, 97, 114>>
MASK  == <<60, 77, 65, 83, 75, 62>>
UNK   == <<60, 85, 78, 75, 62>>

\* str.lower(): the upper-case letters A..Z move to a..z, the rest stays.
lower(w) == [ i \in 1..Len(w) |-> IF w[i] \in 65..90 THEN w[i] + 32 ELSE w[i] ]

HasKey(d, key) == \E k \in 1..Len(d) : d[k].word = key

\* d[key]
Lookup(d, key) == d[CHOOSE k \in 1..Len(d) : d[k].word = key].index

RECURSIVE Dot(_, _)
Dot(x, y) == IF x = << >> THEN 0 ELSE Head(x) * Head(y) + Dot(Tail(x), Tail(y))

\* nn.CosineSimilarity(dim=0)(x, y) = x.y / max(|x| |y|, eps).  The score is
\* kept exactly, as the pair (num, den2) standing for num / sqrt(den2); a zero
\* vector gives a denominator of eps and the score 0.
cos(x, y) ==
    LET n2 == Dot(x, x) * Dot(y, y)
    IN  IF n2 = 0 THEN [num |-> 0, den2 |-> 1]
                  ELSE [num |-> Dot(x, y), den2 |-> n2]

Abs(n) == IF n < 0 THEN -n ELSE n

\* a < b for two scores: t |-> t * |t| is increasing, so compare
\* num * |num| / den2 on both sides, cross-multiplied.
Less(a, b) == a.num * Abs(a.num) * b.den2 < b.num * Abs(b.num) * a.den2

SameScore(a, b) == ~ Less(a, b) /\ ~ Less(b, a)

Reverse(s) == [ i \in 1..Len(s) |-> s[Len(s) + 1 - i] ]

\* Insert x into the ascending sequence s behind every element not above it.
RECURSIVE InsertAsc(_, _)
InsertAsc(x, s) ==
    IF s = << >> THEN << x >>
    ELSE IF Less(x.score, Head(s).score) THEN << x >> \o s
    ELSE << Head(s) >> \o InsertAsc(x, Tail(s))

\* A stable ascending sort by score.
RECURSIVE SortAsc(_)
SortAsc(s) ==
    IF s = << >> THEN << >>
    ELSE InsertAsc(s[Len(s)], SortAsc(SubSeq(s, 1, Len(s) - 1)))

\* A descending sort that sorts ascending and reverses the outcome, which
\* turns the order of equal scores around.
sorted_thenReversed(s) == Reverse(SortAsc(s))

\* sorted(distances, key=lambda x: x[1], reverse=True): a stable sort; with
\* reverse=True the list is reversed, sorted ascending, and reversed again, so
\* equal keys keep the order they had.
sorted_reverse(s) == Reverse(SortAsc(Reverse(s)))

\* for word, index in word_to_idx.items(): ... distances.append(...)
RECURSIVE Distances(_, _, _, _, _)
Distances(d, k, target, word_embedding, emb) ==
    IF k > Len(d) THEN << >>
    ELSE LET word  == d[k].word
             index == d[k].index
             rest  == Distances(d, k + 1, target, word_embedding, emb)
         IN  IF word \in {MASK, target, UNK}
             THEN rest
             ELSE << [word |-> word, score |-> cos(word_embedding, emb[index + 1])] >>
                  \o rest

NoError == [type |-> "none", key |-> << >>]

Outcome(status, ret, err, count) ==
    [status |-> status, ret |-> ret, err |-> err, count |-> count]

\* A get_cosine_similar that looks the word up with a default (row 0) and so
\* returns a ranking for a word that is not in the vocabulary.
get_cosine_similar_default(target, d, emb) ==
    LET key == lower(target)
        row == IF HasKey(d, key) THEN Lookup(d, key) ELSE 0
    IN  IF emb = << >>
        THEN Outcome("returned", << >>, NoError, 0)
        ELSE LET distances == Distances(d, 1, target, emb[row + 1], emb)
             IN  Outcome("returned", sorted_reverse(distances), NoError, Len(distances))

\* get_cosine_similar(target_word, word_to_idx, embeddings); count is the
\* number of similarities computed.
get_cosine_similar(target, d, emb) ==
    LET key == lower(target)
    IN  IF ~ HasKey(d, key)
        THEN Outcome("raised", << >>, [type |-> "KeyError", key |-> key], 0)
        ELSE LET word_embedding == emb[Lookup(d, key) + 1]
                 distances      == Distances(d, 1, target, word_embedding, emb)
             IN  Outcome("returned", sorted_reverse(distances), NoError, Len(distances))

(***************************************************************************)
(* utils.set_seed_everywhere and the random generators it seeds.  The      *)
(* state of a generator is a number below RngStates.                       *)
(***************************************************************************)
seed == 42

\* np.random.seed(s), torch.manual_seed(s), torch.cuda.manual_seed_all(s):
\* the state of the generator becomes a function of s alone.
manual_seed(s) == s % RngStates

\* One step of a generator.
NextState(g) == (5 * g + 3) % RngStates

\* A set_seed_everywhere that seeds numpy only.
set_seed_numpy_only(np, torch, cuda) ==
    [np |-> manual_seed(seed), torch |-> torch, cuda |-> cuda]

\* set_seed_everywhere()
set_seed_everywhere(np, torch, cuda) ==
    [np    |-> manual_seed(seed),
     torch |-> manual_seed(seed),
     cuda  |-> manual_seed(seed)]

\* Dropout(p = 0.5) in training mode on the vector x: one draw per element;
\* an element is zeroed or scaled by 1 / (1 - p) = 2.
RECURSIVE Dropout_forward(_, _)
Dropout_forward(g, x) ==
    IF x = << >> THEN [out |-> << >>, rng |-> g]
    ELSE LET g1   == NextState(g)
             keep == (g1 \div 2) % 2 = 1
             rest == Dropout_forward(g1, Tail(x))
         IN  [out |-> << IF keep THEN 2 * Head(x) ELSE 0 >> \o rest.out,
              rng |-> rest.rng]

(***************************************************************************)
(* The encoder specification.                                              *)
(*   pc = "modules" : the attention and feed-forward modules exist         *)
(*   pc = "block"   : the prototype EncoderBlock has been constructed      *)
(*   pc = "stack"   : the CompositeEncoder has been constructed            *)
(***************************************************************************)
Fields == {"self_attention", "feed_forward"}

\* The padding masks over S positions: n real tokens followed by padding.
PaddingMasks(S) == { [ i \in 1..S |-> IF i <= n THEN 1 ELSE 0 ] : n \in 1..S }

NoInput == [values |-> Tensor(NoTensor, << >>), mask |-> NoMask]
NoResult == [status |-> "none", out |-> Tensor(NoTensor, << >>)]

CosIdle ==
    /\ target_word = << >>
    /\ word_to_idx = << >>
    /\ embeddings = << >>
    /\ cos_pc = "idle"
    /\ cos_ret = << >>
    /\ cos_err = NoError
    /\ cos_count = 0

SeedIdle ==
    /\ np_rng = 0
    /\ torch_rng = 0
    /\ cuda_rng = 0
    /\ epoch = 0
    /\ runs = << >>

EncIdle ==
    /\ pc = "idle"
    /\ heap = << >>
    /\ proto = 0
    /\ layers = << >>
    /\ add_norm = BatchNorm1d(0)
    /\ input = NoInput
    /\ calls = << >>
    /\ result = NoResult
    /\ lastOp = <<"none", 0>>

Init ==
    /\ pc = "modules"
    /\ \E p1 \in Params, p2 \in Params :
          heap = << MultiHeadedAttention(p1), PositionWiseFFNLayer(p2) >>
    /\ proto = 0
    /\ layers = << >>
    /\ add_norm = BatchNorm1d(0)
    /\ input = NoInput
    /\ calls = << >>
    /\ result = NoResult
    /\ lastOp = <<"none", 0>>
    /\ CosIdle
    /\ SeedIdle

\* layer = EncoderBlock(size, self_attention, feed_forward, dropout)
NewEncoderBlock(sz) ==
    /\ pc = "modules"
    /\ LET r == EncoderBlock_init(heap, sz, 1, 2)
       IN  /\ heap' = r.heap
           /\ proto' = r.ref
    /\ pc' = "block"
    /\ lastOp' = <<"new_block", 0>>
    /\ UNCHANGED <<layers, add_norm, input, calls, result>>

\* CompositeEncoder(layer, num_layers)
NewCompositeEncoder(num_layers) ==
    /\ pc = "block"
    /\ LET r == CompositeEncoder_init(heap, proto, num_layers)
       IN  /\ heap' = r.heap
           /\ layers' = r.layers
           /\ add_norm' = r.add_norm
    /\ pc' = "stack"
    /\ lastOp' = <<"new_stack", 0>>
    /\ UNCHANGED <<proto, input, calls, result>>

\* A weight of the block at position i of self._layers is assigned
\* (an optimizer step, or a test writing to the parameter).
UpdateBlockParam(i, f, v) ==
    /\ pc = "stack"
    /\ i \in 1..Len(layers)
    /\ heap[heap[layers[i]].refs[f]].param # v
    /\ heap' = [heap EXCEPT ![heap[layers[i]].refs[f]].param = v]
    /\ lastOp' = <<"update_block", i>>
    /\ input' = NoInput
    /\ calls' = << >>
    /\ result' = NoResult
    /\ UNCHANGED <<pc, proto, layers, add_norm>>

\* A weight of the prototype block handed to the constructor is assigned.
UpdatePrototypeParam(f, v) ==
    /\ pc = "stack"
    /\ heap[heap[proto].refs[f]].param # v
    /\ heap' = [heap EXCEPT ![heap[proto].refs[f]].param = v]
    /\ lastOp' = <<"update_proto", 0>>
    /\ input' = NoInput
    /\ calls' = << >>
    /\ result' = NoResult
    /\ UNCHANGED <<pc, proto, layers, add_norm>>

\* encoder(values, mask) with values of shape [B, S, size] and a padding mask
\* over the S positions.  input, calls and result describe the latest forward
\* pass and are cleared by any other operation.
Forward(B, S, mask) ==
    /\ pc = "stack"
    /\ \E r \in { CompositeEncoder_forward(heap, layers, add_norm,
                                           Tensor(0, <<B, S, size(heap, proto)>>), mask) } :
          /\ input' = [values |-> Tensor(0, <<B, S, size(heap, proto)>>), mask |-> mask]
          /\ calls' = r.calls
          /\ result' = [status |-> IF r.ok THEN "ok" ELSE "RuntimeError", out |-> r.out]
    /\ lastOp' = <<"forward", 0>>
    /\ UNCHANGED <<pc, heap, proto, layers, add_norm>>

Next ==
    \/ \E sz \in Sizes : NewEncoderBlock(sz) /\ UNCHANGED <<cosVars, seedVars>>
    \/ \E n \in 0..MaxLayers : NewCompositeEncoder(n) /\ UNCHANGED <<cosVars, seedVars>>
    \/ \E i \in 1..MaxLayers, f \in Fields, v \in Params :
          UpdateBlockParam(i, f, v) /\ UNCHANGED <<cosVars, seedVars>>
    \/ \E f \in Fields, v \in Params :
          UpdatePrototypeParam(f, v) /\ UNCHANGED <<cosVars, seedVars>>
    \/ \E B \in Batches, S \in SeqLens : \E mask \in PaddingMasks(S) :
          Forward(B, S, mask) /\ UNCHANGED <<cosVars, seedVars>>

Spec == Init /\ [][Next]_vars

(***************************************************************************)
(* Properties of the encoder.                                              *)
(***************************************************************************)
Forwarded == result.status # "none"

CallsOf(op) == SelectSeq(calls, LAMBDA c : c.op = op)

\* C1: after CompositeEncoder(layer, N) with N > 1, the blocks at distinct
\* positions i # j hold independent parameters: assigning a parameter of the
\* block at position i leaves the parameters of the block at position j as
\* they were.
C1_ParameterIndependence ==
    [][ \A i \in 1..Len(layers) : \A j \in 1..Len(layers) :
          (i # j /\ lastOp' = <<"update_block", i>>)
             => ParamsOf(heap', layers[j]) = ParamsOf(heap, layers[j]) ]_vars

\* C2: every forward pass on values of shape [B, S, D] with D the configured
\* size completes and returns a tensor of shape [B, S, D].
C2_ForwardPreservesShape ==
    Forwarded => /\ result.status = "ok"
                 /\ result.out.shape = input.values.shape

\* C6: in one forward pass over N blocks the attention module is invoked once
\* per block, N times in all, and each invocation (and each block) receives
\* the mask that was passed to the stack's forward.
C6_MaskPropagation ==
    Forwarded =>
        LET A == CallsOf("self_attention")
            L == CallsOf("EncoderBlock")
        IN  /\ Len(A) = Len(layers)
            /\ Len(L) = Len(layers)
            /\ \A k \in 1..Len(A) :
                  /\ A[k].mask = input.mask
                  /\ L[k].mask = input.mask
                  /\ A[k].obj = heap[layers[k]].refs.self_attention

C6_Witness ==
    /\ Forwarded
    /\ Len(layers) >= 2
    /\ input.mask[Len(input.mask)] = 0
    /\ \A k \in 1..(Len(input.mask) - 1) : input.mask[k] = 1

\* C8: forward applies the blocks in the order of the stack, num_layers block
\* applications in all, block 1 on the caller's values and block k+1 on the
\* output of block k; the final normalisation is applied once, as the last
\* step, to the output of the last block, and its result is what is returned.
C8_SequentialExecution ==
    Forwarded =>
        LET L == CallsOf("EncoderBlock")
            N == CallsOf("batch_norm")
        IN  /\ Len(L) = Len(layers)
            /\ \A k \in 1..Len(L) :
                  /\ L[k].obj = layers[k]
                  /\ L[k].args = << IF k = 1 THEN input.values.id ELSE L[k-1].out >>
            /\ Len(N) = 1
            /\ calls[Len(calls)].op = "batch_norm"
            /\ N[1].args = << IF Len(L) = 0 THEN input.values.id ELSE L[Len(L)].out >>
            /\ (result.status = "ok" => result.out.id = N[1].out)

C8_Witness ==
    /\ result.status = "ok"
    /\ Len(layers) >= 2

C10_NoAlias ==
    pc = "stack" =>
        \A i \in 1..Len(layers) :
            /\ layers[i] # proto
            /\ StorageOf(heap, layers[i]) \cap StorageOf(heap, proto) = {}

C10_Frame ==
    /\ lastOp' = <<"update_proto", 0>> =>
          \A i \in 1..Len(layers) :
              ParamsOf(heap', layers[i]) = ParamsOf(heap, layers[i])
    /\ lastOp'[1] = "update_block" =>
          ParamsOf(heap', proto) = ParamsOf(heap, proto)

\* C10: the prototype block is not stored in the stack: no block of the stack
\* is the prototype or shares its attention or feed-forward module, so that
\* assigning a parameter of the prototype changes no block of the stack and
\* assigning a parameter of a block of the stack leaves the prototype as it was.
C10_PrototypeNotStored == []C10_NoAlias /\ [][C10_Frame]_vars

C10_Witness ==
    /\ lastOp = <<"update_proto", 0>>
    /\ Len(layers) >= 1
    /\ ParamsOf(heap, proto) # ParamsOf(heap, layers[1])

(***************************************************************************)
(* The specification of get_cosine_similar: the inputs are drawn from      *)
(* bounded sets, the one action is the call.                               *)
(***************************************************************************)
Words   == {w_cat, w_dog, w_car, MASK, UNK}
Targets == {w_cat, w_Cat, MASK}
Vectors == { <<1, 0>>, <<0, 1>>, <<-1, 1>>, <<0, 0>> }

\* The vocabularies of n words: n distinct words in some order, numbered
\* 0 .. n-1 in that order.
Vocabularies(n) ==
    { [ k \in 1..n |-> [word |-> ws[k], index |-> k - 1] ] :
        ws \in { f \in [1..n -> Words] : \A i, j \in 1..n : i # j => f[i] # f[j] } }

Keys(d) == { d[k].word : k \in 1..Len(d) }

InitCosine ==
    /\ \E n \in 0..MaxVocab :
          /\ word_to_idx \in Vocabularies(n)
          /\ embeddings \in [1..n -> Vectors]
    /\ target_word \in Targets
    /\ cos_pc = "input"
    /\ cos_ret = << >>
    /\ cos_err = NoError
    /\ cos_count = 0
    /\ EncIdle
    /\ SeedIdle

GetCosineSimilar ==
    /\ cos_pc = "input"
    /\ LET r == get_cosine_similar(target_word, word_to_idx, embeddings)
       IN  /\ cos_pc' = r.status
           /\ cos_ret' = r.ret
           /\ cos_err' = r.err
           /\ cos_count' = r.count
    /\ UNCHANGED <<target_word, word_to_idx, embeddings>>

NextCosine == GetCosineSimilar /\ UNCHANGED <<encVars, seedVars>>

SpecCosine == InitCosine /\ [][NextCosine]_vars

Tokens(ret) == { ret[k].word : k \in 1..Len(ret) }

PositionOf(d, word) == CHOOSE k \in 1..Len(d) : d[k].word = word

\* C3: for a target word in any letter case whose lower-cased form is a key
\* of the vocabulary, the result holds no pair for <MASK>, <UNK> or the
\* target's own vocabulary token, and holds every other vocabulary token.
C3_ExcludesReservedAndTarget ==
    cos_pc = "returned" =>
        Tokens(cos_ret) = Keys(word_to_idx) \ {MASK, UNK, lower(target_word)}

\* C4: the result is in descending order of score, and entries of equal
\* score stand in the order in which the vocabulary iterates over their tokens.
C4_DescendingStable ==
    cos_pc = "returned" =>
        /\ \A k \in 1..(Len(cos_ret) - 1) :
              ~ Less(cos_ret[k].score, cos_ret[k + 1].score)
        /\ \A i, j \in 1..Len(cos_ret) :
              (i < j /\ SameScore(cos_ret[i].score, cos_ret[j].score))
                 => PositionOf(word_to_idx, cos_ret[i].word)
                       < PositionOf(word_to_idx, cos_ret[j].word)

C4_Witness ==
    /\ cos_pc = "returned"
    /\ \E i, j \in 1..Len(cos_ret) :
          /\ i < j
          /\ SameScore(cos_ret[i].score, cos_ret[j].score)
    /\ \E i, j \in 1..Len(cos_ret) :
          /\ i < j
          /\ PositionOf(word_to_idx, cos_ret[i].word)
                > PositionOf(word_to_idx, cos_ret[j].word)

C5_Raised ==
    (cos_pc # "input" /\ ~ HasKey(word_to_idx, lower(target_word))) =>
        /\ cos_pc = "raised"
        /\ cos_err = [type |-> "KeyError", key |-> lower(target_word)]
        /\ cos_ret = << >>
        /\ cos_count = 0

C5_InputsKept ==
    (cos_pc = "input" /\ cos_pc' # "input") =>
        /\ word_to_idx' = word_to_idx
        /\ embeddings' = embeddings

\* C5: when the lower-cased target word is no key of the vocabulary the call
\* fails with a KeyError for that key before any similarity is computed and
\* returns nothing, and the call leaves the vocabulary and the embedding
\* table as they were.
C5_LookupMiss == []C5_Raised /\ [][C5_InputsKept]_vars

C5_Witness ==
    /\ cos_pc = "raised"
    /\ Len(word_to_idx) >= 2
    /\ target_word = w_cat

(***************************************************************************)
(* The specification of seeding.  The process starts with its generators   *)
(* in arbitrary states; epoch counts the calls of set_seed_everywhere, and *)
(* runs logs every dropout run with the epoch it was made in and its       *)
(* number within that epoch.                                               *)
(***************************************************************************)
Devices == {"cpu", "cuda"}
DropoutInputs == { <<1, 1>>, <<1, 2>> }

InitSeed ==
    /\ np_rng \in 0..(RngStates - 1)
    /\ torch_rng \in 0..(RngStates - 1)
    /\ cuda_rng \in 0..(RngStates - 1)
    /\ epoch = 0
    /\ runs = << >>
    /\ EncIdle
    /\ CosIdle

SetSeedEverywhere ==
    /\ epoch < MaxSeeds
    /\ LET r == set_seed_everywhere(np_rng, torch_rng, cuda_rng)
       IN  /\ np_rng' = r.np
           /\ torch_rng' = r.torch
           /\ cuda_rng' = r.cuda
    /\ epoch' = epoch + 1
    /\ UNCHANGED runs

\* dropout(x) on a tensor of the given device: a cpu tensor draws from the
\* default generator, a cuda tensor from the device's generator.
DropoutRun(device, x) ==
    /\ Len(runs) < MaxRuns
    /\ LET g == IF device = "cpu" THEN torch_rng ELSE cuda_rng
           r == Dropout_forward(g, x)
           n == Cardinality({ k \in 1..Len(runs) : runs[k].epoch = epoch })
       IN  /\ runs' = Append(runs, [epoch |-> epoch, nth |-> n + 1, device |-> device,
                                    input |-> x, output |-> r.out])
           /\ IF device = "cpu"
              THEN torch_rng' = r.rng /\ UNCHANGED cuda_rng
              ELSE cuda_rng' = r.rng /\ UNCHANGED torch_rng
    /\ UNCHANGED <<np_rng, epoch>>

NextSeed ==
    \/ SetSeedEverywhere /\ UNCHANGED <<encVars, cosVars>>
    \/ \E device \in Devices, x \in DropoutInputs :
          DropoutRun(device, x) /\ UNCHANGED <<encVars, cosVars>>

SpecSeed == InitSeed /\ [][NextSeed]_vars

SameCall(r1, r2) == r1.device = r2.device /\ r1.input = r2.input

\* C7: after a call of set_seed_everywhere, any two dropout runs
\* with identical inputs give identical outputs.
C7_RunsAfterSeedAgree ==
    \A i, j \in 1..Len(runs) :
        (runs[i].epoch >= 1 /\ runs[i].epoch = runs[j].epoch /\ SameCall(runs[i], runs[j]))
           => runs[i].output = runs[j].output

\* C7 amended: two dropout runs with identical inputs, each the first run
\* after a call of set_seed_everywhere, give identical outputs.
C7_FirstRunsAfterSeedAgree ==
    \A i, j \in 1..Len(runs) :
        (/\ runs[i].epoch >= 1 /\ runs[i].nth = 1
         /\ runs[j].epoch >= 1 /\ runs[j].nth = 1
         /\ SameCall(runs[i], runs[j]))
           => runs[i].output = runs[j].output

C7_Witness ==
    \E i, j \in 1..Len(runs) :
        /\ i < j
        /\ runs[i].epoch = 1 /\ runs[i].nth = 1
        /\ runs[j].epoch = 2 /\ runs[j].nth = 1
        /\ j > i + 1
        /\ SameCall(runs[i], runs[j])
        /\ runs[i].output # runs[i + 1].output
====
